---- MODULE Spec2Model ----
(***************************************************************************)
(* Model of streamlit_chatbot_planner.py: the quiz session that lives in   *)
(* st.session_state (quiz, quiz_idx, answers, current_answered,            *)
(* current_revealed, progress, mode, difficulty, client and the radio      *)
(* widget keys), the handlers of render_quiz_area, reset_all and the       *)
(* sidebar widgets, update_progress, and the normalisation that gen_quiz   *)
(* applies to the parsed model output.                                     *)
(*                                                                         *)
(* Every handler ends in st.rerun() or in the end of the script run, so    *)
(* one action is one script run that handles one widget event.             *)
(***************************************************************************)
EXTENDS Integers, Sequences, FiniteSets, TLC

\* ---------------------------------------------------------------- bounds

\* Largest number of items in a quiz returned by the model.
MaxItems == 2

\* Longest history of the ledgers that update_progress is applied to on its
\* own (SpecRecord).
MaxHistory == 2

\* Largest number of attempts in the ledgers that show_progress is applied
\* to on its own (SpecLedger).
MaxAttempts == 4

\* Longest text of the model's reply, in tokens, that the parsing of gen_quiz
\* is applied to (SpecParse).
MaxText == 5

\* ------------------------------------------------------- values and sets

\* Python's None (quiz is None, client is None, .get(key, None)).
None == "None"

\* st.radio("Mode", options=["Belajar", "Kuis", "Review"])
Modes == {"Belajar", "Kuis", "Review"}

\* st.selectbox("Level Kuis", options=["easy", "medium", "hard"]); the model
\* lets the learner use two of the three levels.
Difficulties == {"easy", "hard"}

\* st.radio(options=list(range(4))) offers 0 .. 3; the learner of the model
\* selects among the first two, which hold the right answer and a wrong one
\* for every item of ModelOutputs.
Choices == {0, 1}

\* ----------------------------------------------------- dict/JSON helpers

\* A Python dict is a function from its keys; these are `k in d`, d.pop(k)
\* and d[k] = v.
Has(d, k) == k \in DOMAIN d

Pop(d, k) == [x \in DOMAIN d \ {k} |-> d[x]]

Put(d, k, v) == [x \in DOMAIN d \cup {k} |-> IF x = k THEN v ELSE d[x]]

\* A JSON value whose Python type the code tests is a record with one field,
\* named after its type: [list |-> s], [dict |-> f], [int |-> n], [str |-> s],
\* [bool |-> b], [null |-> None].
JList(s) == [list |-> s]

JDict(f) == [dict |-> f]

JInt(n) == [int |-> n]

JStr(s) == [str |-> s]

JBool(b) == [bool |-> b]

JNull == [null |-> None]

\* type(j), and the value of j.
Kind(j) == CHOOSE k \in DOMAIN j : TRUE

Val(j) == j[Kind(j)]

\* ------------------------------------------------------------- gen_quiz

\* Characters of a correct_answer string; a string is the sequence of its
\* characters.
Whitespace == {" ", "\n", "\t"}

\* str.upper() on one character.
UpperChar(c) ==
    CASE c = "a" -> "A"
      [] c = "b" -> "B"
      [] c = "c" -> "C"
      [] c = "d" -> "D"
      [] c = "e" -> "E"
      [] OTHER -> c

Upper(s) == [k \in 1 .. Len(s) |-> UpperChar(s[k])]

\* str.strip(): drops the leading and the trailing whitespace.
RECURSIVE LStrip(_)
LStrip(s) == IF s # <<>> /\ Head(s) \in Whitespace THEN LStrip(Tail(s)) ELSE s

RECURSIVE RStrip(_)
RStrip(s) ==
    IF s # <<>> /\ s[Len(s)] \in Whitespace
    THEN RStrip(SubSeq(s, 1, Len(s) - 1))
    ELSE s

Strip(s) == RStrip(LStrip(s))

\* Python's `a in b` for two strings: a is a (contiguous) substring of b.
IsSubstring(a, b) ==
    \E k \in 0 .. (Len(b) - Len(a)) : SubSeq(b, k + 1, k + Len(a)) = a

ABCD == <<"A", "B", "C", "D">>

\* ord(c) - ord("A") for the letters the code can reach.
LetterPosition(c) == CHOOSE k \in 0 .. 3 : ABCD[k + 1] = c

\* Results of a step that may raise: the value, or the exception's type.
Ok(v) == [ok |-> TRUE, v |-> v, err |-> None]

Raise(e) == [ok |-> FALSE, v |-> None, err |-> e]

\* item["question"] = item["question_text"]: the alias key is copied and
\* stays in the item.
NormQuestion_keeps_alias(item) ==
    LET it == IF Has(item, "question_text")
              THEN Put(item, "question", item["question_text"])
              ELSE item
    IN IF Has(it, "question") THEN Ok(it) ELSE Raise("ValueError")

\* item["question"] = item.pop("question_text"); "question" must be there.
NormQuestion(item) ==
    LET it == IF Has(item, "question_text")
              THEN Put(Pop(item, "question_text"), "question", item["question_text"])
              ELSE item
    IN IF Has(it, "question") THEN Ok(it) ELSE Raise("ValueError")

\* [opt_dict[letter] for letter in "ABCD" if letter in opt_dict]: a missing
\* key is skipped, not filled.
OptionsFromDict_no_default(d) ==
    LET present == SelectSeq(ABCD, LAMBDA letter : Has(d, letter))
    IN [k \in 1 .. Len(present) |-> d[present[k]]]

\* [opt_dict.get(letter, "") for letter in "ABCD"]
OptionsFromDict(d) == [k \in 1 .. 4 |-> IF Has(d, ABCD[k]) THEN d[ABCD[k]] ELSE ""]

\* A dict of options becomes the list of its values at A, B, C, D; then the
\* options must be there and len(options) must be 4 (len of a list or of a
\* string; len of anything else raises TypeError).
NormOptions(item) ==
    LET it == IF Has(item, "options") /\ Kind(item["options"]) = "dict"
              THEN Put(item, "options", JList(OptionsFromDict(Val(item["options"]))))
              ELSE item
    IN IF ~Has(it, "options") THEN Raise("ValueError")
       ELSE IF Kind(it["options"]) \notin {"list", "str"} THEN Raise("TypeError")
       ELSE IF Len(Val(it["options"])) # 4 THEN Raise("ValueError")
       ELSE Ok(it)

\* correct_answer.strip().upper() `in "ABCD"` gives answer_index; the test is
\* Python's substring test, and ord() raises TypeError unless it is given
\* exactly one character.
NormCorrectAnswer(item) ==
    IF ~Has(item, "correct_answer") THEN Ok(item)
    ELSE LET corr_ans == Upper(Strip(item["correct_answer"]))
         IN IF ~IsSubstring(corr_ans, ABCD) THEN Raise("ValueError")
            ELSE IF Len(corr_ans) # 1 THEN Raise("TypeError")
            ELSE Ok(Pop(Put(item, "answer_index", JInt(LetterPosition(corr_ans[1]))),
                        "correct_answer"))

\* answer_index must be there, an int and in range(4). A bool is an int to
\* isinstance, and True and False are in range(4) (they equal 1 and 0).
CheckAnswerIndex(item) ==
    IF /\ Has(item, "answer_index")
       /\ \/ Kind(item["answer_index"]) = "bool"
          \/ /\ Kind(item["answer_index"]) = "int"
             /\ Val(item["answer_index"]) \in 0 .. 3
    THEN Ok(item)
    ELSE Raise("ValueError")

\* f"q{n}"
QId(n) == "q" \o ToString(n)

\* Every item is numbered by its position, whatever id it brings.
NormId_renumbers(item, i) ==
    LET it == IF Has(item, "question_number") THEN Pop(item, "question_number")
              ELSE item
    IN Put(it, "id", QId(i + 1))

\* id from question_number, else the id given, else q{i+1} (i counts from 0).
NormId(item, i) ==
    LET it == IF Has(item, "question_number")
              THEN Put(Pop(item, "question_number"), "id", QId(item["question_number"]))
              ELSE item
    IN IF Has(it, "id") THEN it ELSE Put(it, "id", QId(i + 1))

\* explanation defaults to "", tags to [].
NormDefaults(item) ==
    LET it == IF Has(item, "explanation") THEN item ELSE Put(item, "explanation", "")
    IN IF Has(it, "tags") THEN it ELSE Put(it, "tags", <<>>)

\* The body of `for i, item in enumerate(quiz_data["items"])`.
NormItem(item, i) ==
    LET a == NormQuestion(item)
    IN IF ~a.ok THEN a
       ELSE LET b == NormOptions(a.v)
            IN IF ~b.ok THEN b
               ELSE LET d == NormCorrectAnswer(b.v)
                    IN IF ~d.ok THEN d
                       ELSE LET e == CheckAnswerIndex(d.v)
                            IN IF ~e.ok THEN e
                               ELSE Ok(NormDefaults(NormId(e.v, i)))

\* An exception raised in the loop's round i; the messages of the loop's
\* ValueErrors start with f"Item {i}".
RaiseAt(e, i) == [ok |-> FALSE, v |-> None, err |-> e, item |-> i]

\* A loop that goes on after an item has raised and reports the last item
\* that did.
RECURSIVE NormItems_last_failure(_, _)
NormItems_last_failure(items, i) ==
    IF i >= Len(items) THEN Ok(items)
    ELSE LET r == NormItem(items[i + 1], i)
             rest == NormItems_last_failure(
                         IF r.ok THEN [items EXCEPT ![i + 1] = r.v] ELSE items, i + 1)
         IN IF r.ok \/ ~rest.ok THEN rest ELSE RaiseAt(r.err, i)

\* The loop over the items: the first item that raises ends it.
RECURSIVE NormItems(_, _)
NormItems(items, i) ==
    IF i >= Len(items) THEN Ok(items)
    ELSE LET r == NormItem(items[i + 1], i)
         IN IF ~r.ok THEN RaiseAt(r.err, i)
            ELSE NormItems([items EXCEPT ![i + 1] = r.v], i + 1)

\* topic_text.strip()[:100] if topic_text.strip() else "Kuis Umum"; the topic
\* texts of the model are shorter than 100 characters and have no padding.
FallbackTopic(topic_text) == IF topic_text # "" THEN topic_text ELSE "Kuis Umum"

\* The aliases and defaults of the top level.
NormTopLevel(quiz_data, difficulty, topic_text) ==
    LET a == IF Has(quiz_data, "questions")
             THEN Put(Pop(quiz_data, "questions"), "items", quiz_data["questions"])
             ELSE quiz_data
        b == IF Has(a, "quiz_name")
             THEN Put(Pop(a, "quiz_name"), "topic", a["quiz_name"])
             ELSE a
        c == IF Has(b, "topic") THEN b ELSE Put(b, "topic", FallbackTopic(topic_text))
    IN IF Has(c, "level") THEN c ELSE Put(c, "level", difficulty)

\* gen_quiz that takes an empty list of items for no items at all
\* (`not quiz_data.get("items")`).
gen_quiz_rejects_empty(quiz_data, difficulty, topic_text) ==
    LET q == NormTopLevel(quiz_data, difficulty, topic_text)
    IN IF ~Has(q, "items") \/ Kind(q["items"]) # "list" \/ Val(q["items"]) = <<>>
       THEN Raise("ValueError")
       ELSE LET r == NormItems(Val(q["items"]), 0)
            IN IF ~r.ok THEN r ELSE Ok(Put(q, "items", JList(r.v)))

\* gen_quiz from the parsed JSON object on: aliases, the check of items, the
\* loop over the items. The result is the quiz, or the exception raised.
gen_quiz(quiz_data, difficulty, topic_text) ==
    LET q == NormTopLevel(quiz_data, difficulty, topic_text)
    IN IF ~Has(q, "items") \/ Kind(q["items"]) # "list" THEN Raise("ValueError")
       ELSE LET r == NormItems(Val(q["items"]), 0)
            IN IF ~r.ok THEN r ELSE Ok(Put(q, "items", JList(r.v)))

\* ------------------------------------------------------- session state

VARIABLES
    client,            \* st.session_state["client"] is not None
    mode,              \* st.session_state["mode"]
    difficulty,        \* st.session_state["difficulty"]
    quiz,              \* st.session_state["quiz"]: JNull or JDict(quiz)
    quiz_idx,          \* st.session_state["quiz_idx"]
    answers,           \* st.session_state["answers"]: item id -> choice
    current_answered,  \* st.session_state["current_answered"]
    current_revealed,  \* st.session_state["current_revealed"]
    progress,          \* st.session_state["progress"]
    radio,             \* st.session_state[f"choice_{id}"]: item id -> choice
    gen                \* the call of gen_quiz that is stepped through on its
                       \* own: its arguments and, once it returned, its result

vars == <<client, mode, difficulty, quiz, quiz_idx, answers, current_answered,
          current_revealed, progress, radio, gen>>

\* {}
EmptyDict == [x \in {} |-> 0]

\* No call of gen_quiz is stepped through: the handler of "Buat Kuis" runs it
\* to its end inside one script run.
NoCall == [pc |-> "idle"]

\* The "progress" default of ensure_state, and what reset_all stores. The
\* entries of history are {id, correct, level, ts}; ts (time.time()) is
\* written and never read, and the model leaves it out.
EmptyProgress == [total_attempts |-> 0, total_correct |-> 0, history |-> <<>>]

\* ensure_state: the defaults of a new session.
Init ==
    /\ client = FALSE
    /\ mode = "Belajar"
    /\ difficulty = "easy"
    /\ quiz = JNull
    /\ quiz_idx = 0
    /\ answers = EmptyDict
    /\ current_answered = FALSE
    /\ current_revealed = FALSE
    /\ progress = EmptyProgress
    /\ radio = EmptyDict
    /\ gen = NoCall

\* any(h["id"] == qid for h in history)
InHistory(prog, qid) == \E k \in 1 .. Len(prog.history) : prog.history[k].id = qid

\* update_progress without the check of history: every call appends.
update_progress_no_dedup(prog, qid, correct, level) ==
    [total_attempts |-> prog.total_attempts + 1,
     total_correct |-> IF correct THEN prog.total_correct + 1 ELSE prog.total_correct,
     history |-> Append(prog.history,
                        [id |-> qid, correct |-> correct, level |-> level])]

\* update_progress that counts the attempt before it checks history.
update_progress_counts_first(prog, qid, correct, level) ==
    IF InHistory(prog, qid)
    THEN [prog EXCEPT !.total_attempts = prog.total_attempts + 1]
    ELSE [total_attempts |-> prog.total_attempts + 1,
          total_correct |-> IF correct THEN prog.total_correct + 1
                            ELSE prog.total_correct,
          history |-> Append(prog.history,
                             [id |-> qid, correct |-> correct, level |-> level])]

\* update_progress where a later record of the same id overwrites the
\* outcome of the first (last write wins).
update_progress_last_wins(prog, qid, correct, level) ==
    IF InHistory(prog, qid)
    THEN [prog EXCEPT !.history =
              [k \in 1 .. Len(prog.history) |->
                  IF prog.history[k].id = qid
                  THEN [prog.history[k] EXCEPT !.correct = correct]
                  ELSE prog.history[k]]]
    ELSE [total_attempts |-> prog.total_attempts + 1,
          total_correct |-> IF correct THEN prog.total_correct + 1
                            ELSE prog.total_correct,
          history |-> Append(prog.history,
                             [id |-> qid, correct |-> correct, level |-> level])]

update_progress(prog, qid, correct, level) ==
    IF InHistory(prog, qid) THEN prog
    ELSE [total_attempts |-> prog.total_attempts + 1,
          total_correct |-> IF correct THEN prog.total_correct + 1
                            ELSE prog.total_correct,
          history |-> Append(prog.history,
                             [id |-> qid, correct |-> correct, level |-> level])]

\* ---------------------------------------------------- the model's output

\* What the generative model may answer, after json.loads: an item in the
\* schema's own form, one with the alias keys and a question_number, and one
\* with 3 options.
FourOptions == <<"w", "x", "y", "z">>

RawItems ==
    { [question |-> "Q", options |-> JList(FourOptions), answer_index |-> JInt(0)],
      [question_text |-> "Q",
       options |-> JDict([A |-> "w", B |-> "x", C |-> "y", D |-> "z"]),
       correct_answer |-> <<" ", "b">>,
       question_number |-> 1],
      [question |-> "Q", options |-> JList(<<"w", "x", "y">>),
       answer_index |-> JInt(0)] }

RawItemLists == UNION {[1 .. n -> RawItems] : n \in 0 .. MaxItems}

ModelOutputs ==
    {[topic |-> "T", level |-> "easy", items |-> JList(s)] : s \in RawItemLists}
    \cup {[quiz_name |-> "T", level |-> "easy", questions |-> JList(s)] :
            s \in RawItemLists}
    \cup {[topic |-> "T"], [topic |-> "T", items |-> JNull]}

\* st.session_state["context_text"], the sidebar's text input.
TopicTexts == {"", "Perencanaan"}

\* ---------------------------------------------------------- the handlers

\* main() renders the quiz area when a client is set and the mode is Kuis.
QuizArea == client /\ mode = "Kuis"

\* st.session_state["quiz"] is not None
HasQuiz == Kind(quiz) # "null"

\* st.session_state["quiz"]["items"]
Items == Val(Val(quiz)["items"])

\* The quiz area shows an item: a quiz with items, quiz_idx inside it.
ItemShown == QuizArea /\ HasQuiz /\ Items # <<>> /\ quiz_idx < Len(Items)

\* qdata[idx]
CurrentItem == Items[quiz_idx + 1]

\* Sidebar: "Set API Key"; make_client gives a client or None.
SetApiKey ==
    /\ client' \in BOOLEAN
    /\ UNCHANGED <<gen, mode, difficulty, quiz, quiz_idx, answers, current_answered,
                   current_revealed, progress, radio>>

\* Sidebar: the Mode radio.
SetMode ==
    /\ mode' \in Modes
    /\ UNCHANGED <<gen, client, difficulty, quiz, quiz_idx, answers, current_answered,
                   current_revealed, progress, radio>>

\* Sidebar: the Level Kuis selectbox.
SetDifficulty ==
    /\ difficulty' \in Difficulties
    /\ UNCHANGED <<gen, client, mode, quiz, quiz_idx, answers, current_answered,
                   current_revealed, progress, radio>>

\* "Buat Kuis" that starts the new quiz at index 1, as if quiz_idx counted
\* from 1.
GenQuiz_one_based ==
    /\ QuizArea
    /\ ~HasQuiz
    /\ \E raw \in ModelOutputs, topic_text \in TopicTexts :
         LET data == gen_quiz(raw, difficulty, topic_text)
         IN IF data.ok
            THEN /\ quiz' = JDict(data.v)
                 /\ quiz_idx' = 1
                 /\ answers' = EmptyDict
                 /\ current_answered' = FALSE
                 /\ current_revealed' = FALSE
                 /\ UNCHANGED <<gen, client, mode, difficulty, progress, radio>>
            ELSE UNCHANGED vars

\* The try block that, when gen_quiz raises, goes on with an empty quiz (the
\* "struktur dasar" of the warning at line 253) instead of st.error alone.
StoreQuiz_basic_on_failure(data) ==
    /\ quiz' = IF data.ok THEN JDict(data.v)
               ELSE JDict([topic |-> "Kuis Umum", level |-> difficulty,
                           items |-> JList(<<>>)])
    /\ quiz_idx' = 0
    /\ answers' = EmptyDict
    /\ current_answered' = FALSE
    /\ current_revealed' = FALSE
    /\ UNCHANGED <<client, mode, difficulty, progress, radio>>

\* The try block of "Buat Kuis" once gen_quiz has returned data or raised:
\* the new session, or st.error and nothing else.
StoreQuiz(data) ==
    IF data.ok
    THEN /\ quiz' = JDict(data.v)
         /\ quiz_idx' = 0
         /\ answers' = EmptyDict
         /\ current_answered' = FALSE
         /\ current_revealed' = FALSE
         /\ UNCHANGED <<client, mode, difficulty, progress, radio>>
    ELSE UNCHANGED <<client, mode, difficulty, quiz, quiz_idx, answers,
                     current_answered, current_revealed, progress, radio>>

\* "Buat Kuis": gen_quiz, and the new session when it returns; when it raises,
\* st.error and nothing else.
GenQuiz ==
    /\ QuizArea
    /\ ~HasQuiz
    /\ \E raw \in ModelOutputs, topic_text \in TopicTexts :
         StoreQuiz(gen_quiz(raw, difficulty, topic_text))
    /\ UNCHANGED gen

\* "Ulangi Kuis" that forgets to reset quiz_idx.
ClearQuiz_keeps_idx ==
    /\ quiz' = JNull
    /\ answers' = EmptyDict
    /\ current_answered' = FALSE
    /\ current_revealed' = FALSE
    /\ UNCHANGED <<gen, client, mode, difficulty, progress, radio, quiz_idx>>

\* What both "Ulangi Kuis" buttons store.
ClearQuiz ==
    /\ quiz' = JNull
    /\ quiz_idx' = 0
    /\ answers' = EmptyDict
    /\ current_answered' = FALSE
    /\ current_revealed' = FALSE
    /\ UNCHANGED <<gen, client, mode, difficulty, progress, radio>>

\* "Ulangi Kuis" under "Kuis tidak valid": the quiz has no items.
RestartInvalid ==
    /\ QuizArea
    /\ HasQuiz
    /\ Items = <<>>
    /\ ClearQuiz

\* "Ulangi Kuis" that starts the same quiz again instead of dropping it.
Restart_same_quiz ==
    /\ QuizArea
    /\ HasQuiz
    /\ Items # <<>>
    /\ quiz_idx >= Len(Items)
    /\ quiz_idx' = 0
    /\ answers' = EmptyDict
    /\ current_answered' = FALSE
    /\ current_revealed' = FALSE
    /\ UNCHANGED <<gen, client, mode, difficulty, progress, radio, quiz>>

\* "Ulangi Kuis" under "Kuis selesai!": quiz_idx is past the last item.
Restart ==
    /\ QuizArea
    /\ HasQuiz
    /\ Items # <<>>
    /\ quiz_idx >= Len(Items)
    /\ ClearQuiz

\* The radio of the item shown, while it is not answered.
SelectChoice ==
    /\ ItemShown
    /\ ~current_answered
    /\ \E c \in Choices : radio' = Put(radio, CurrentItem["id"], c)
    /\ UNCHANGED <<gen, client, mode, difficulty, quiz, quiz_idx, answers,
                   current_answered, current_revealed, progress>>

\* selected_choice == item["answer_index"]
IsCorrect(selected, item) == selected = Val(item["answer_index"])

\* Submit without the check of `selected_choice is None`: a missing choice
\* (-1 here) is stored and graded as a wrong answer.
Submit_no_check ==
    /\ ItemShown
    /\ ~current_answered
    /\ LET selected_choice == IF Has(radio, CurrentItem["id"])
                              THEN radio[CurrentItem["id"]] ELSE -1
       IN /\ answers' = Put(answers, CurrentItem["id"], selected_choice)
          /\ progress' = update_progress(progress, CurrentItem["id"],
                                         IsCorrect(selected_choice, CurrentItem),
                                         difficulty)
          /\ current_answered' = TRUE
          /\ current_revealed' = FALSE
          /\ UNCHANGED <<gen, client, mode, difficulty, quiz, quiz_idx, radio>>

\* "Submit Jawaban" that stores the answer and does not call
\* update_progress.
Submit_no_record ==
    /\ ItemShown
    /\ ~current_answered
    /\ IF ~Has(radio, CurrentItem["id"])
       THEN UNCHANGED vars
       ELSE /\ answers' = Put(answers, CurrentItem["id"], radio[CurrentItem["id"]])
            /\ current_answered' = TRUE
            /\ current_revealed' = FALSE
            /\ UNCHANGED <<gen, client, mode, difficulty, quiz, quiz_idx, radio,
                           progress>>

\* "Submit Jawaban": without a selected choice, a warning and a rerun.
Submit ==
    /\ ItemShown
    /\ ~current_answered
    /\ IF ~Has(radio, CurrentItem["id"])
       THEN UNCHANGED vars
       ELSE LET selected_choice == radio[CurrentItem["id"]]
            IN /\ answers' = Put(answers, CurrentItem["id"], selected_choice)
               /\ progress' = update_progress(progress, CurrentItem["id"],
                                              IsCorrect(selected_choice, CurrentItem),
                                              difficulty)
               /\ current_answered' = TRUE
               /\ current_revealed' = FALSE
               /\ UNCHANGED <<gen, client, mode, difficulty, quiz, quiz_idx, radio>>

\* The reveal button drawn whether the item is answered or not.
Reveal_unanswered ==
    /\ ItemShown
    /\ ~current_revealed
    /\ current_revealed' = TRUE
    /\ UNCHANGED <<gen, client, mode, difficulty, quiz, quiz_idx, answers,
                   current_answered, progress, radio>>

\* "Kunci Jawaban & Penjelasan", shown while answered and not revealed.
Reveal ==
    /\ ItemShown
    /\ current_answered
    /\ ~current_revealed
    /\ current_revealed' = TRUE
    /\ UNCHANGED <<gen, client, mode, difficulty, quiz, quiz_idx, answers,
                   current_answered, progress, radio>>

\* The "Lanjut" button drawn whether the item is answered or not.
Advance_unanswered ==
    /\ ItemShown
    /\ quiz_idx' = quiz_idx + 1
    /\ current_answered' = FALSE
    /\ current_revealed' = FALSE
    /\ radio' = IF Has(radio, CurrentItem["id"]) THEN Pop(radio, CurrentItem["id"])
                ELSE radio
    /\ UNCHANGED <<gen, client, mode, difficulty, quiz, answers, progress>>

\* "Lanjut" that moves on and leaves the two flags as they are.
Advance_keeps_flags ==
    /\ ItemShown
    /\ current_answered
    /\ quiz_idx' = quiz_idx + 1
    /\ radio' = IF Has(radio, CurrentItem["id"]) THEN Pop(radio, CurrentItem["id"])
                ELSE radio
    /\ UNCHANGED <<gen, client, mode, difficulty, quiz, answers, progress,
                   current_answered, current_revealed>>

\* "Lanjut" that leaves the radio's key in the session state.
Advance_keeps_choice ==
    /\ ItemShown
    /\ current_answered
    /\ quiz_idx' = quiz_idx + 1
    /\ current_answered' = FALSE
    /\ current_revealed' = FALSE
    /\ UNCHANGED <<gen, client, mode, difficulty, quiz, answers, progress, radio>>

\* "Lanjut ke soal berikutnya", shown while answered.
Advance ==
    /\ ItemShown
    /\ current_answered
    /\ quiz_idx' = quiz_idx + 1
    /\ current_answered' = FALSE
    /\ current_revealed' = FALSE
    /\ radio' = IF Has(radio, CurrentItem["id"]) THEN Pop(radio, CurrentItem["id"])
                ELSE radio
    /\ UNCHANGED <<gen, client, mode, difficulty, quiz, answers, progress>>

\* Sidebar: "Reset Semua".
reset_all ==
    /\ quiz' = JNull
    /\ quiz_idx' = 0
    /\ answers' = EmptyDict
    /\ current_answered' = FALSE
    /\ current_revealed' = FALSE
    /\ progress' = EmptyProgress
    /\ mode' = "Belajar"
    /\ difficulty' = "easy"
    /\ UNCHANGED <<gen, client, radio>>

Next ==
    \/ SetApiKey
    \/ SetMode
    \/ SetDifficulty
    \/ GenQuiz
    \/ RestartInvalid
    \/ Restart
    \/ SelectChoice
    \/ Submit
    \/ Reveal
    \/ Advance
    \/ reset_all

Spec == Init /\ [][Next]_vars

\* ------------------------------------------ update_progress on its own

\* The ledgers and arguments update_progress is applied to: every history of
\* at most MaxHistory entries over the ids q1 .. q<MaxHistory> and every pair
\* of totals, consistent with the history or not.
LedgerIds == {QId(n) : n \in 1 .. MaxHistory}

LedgerEntries == [id : LedgerIds, correct : BOOLEAN, level : Difficulties]

Ledgers ==
    [total_attempts : 0 .. MaxHistory,
     total_correct : 0 .. MaxHistory,
     history : UNION {[1 .. n -> LedgerEntries] : n \in 0 .. MaxHistory}]

InitRecord ==
    /\ client = FALSE
    /\ mode = "Belajar"
    /\ difficulty = "easy"
    /\ quiz = JNull
    /\ quiz_idx = 0
    /\ answers = EmptyDict
    /\ current_answered = FALSE
    /\ current_revealed = FALSE
    /\ progress \in Ledgers
    /\ radio = EmptyDict
    /\ gen = NoCall

\* One call of update_progress; a call that would make history longer than
\* MaxHistory is left out.
RecordCall ==
    /\ \E qid \in LedgerIds, correct \in BOOLEAN, level \in Difficulties :
         /\ InHistory(progress, qid) \/ Len(progress.history) < MaxHistory
         /\ progress' = update_progress(progress, qid, correct, level)
    /\ UNCHANGED <<gen, client, mode, difficulty, quiz, quiz_idx, answers,
                   current_answered, current_revealed, radio>>

NextRecord == RecordCall

SpecRecord == InitRecord /\ [][NextRecord]_vars

\* ---------------------------------------- show_progress and the ledger

\* A float that is the quotient of two integers, kept exact: num / den.
Ratio(num, den) == [num |-> num, den |-> den]

\* acc without the factor 100: the ratio correct / attempts.
acc_as_ratio(prog) ==
    IF prog.total_attempts # 0
    THEN Ratio(prog.total_correct, prog.total_attempts)
    ELSE Ratio(0, 1)

\* acc = (correct / attempts) * 100 if attempts else 0.0
acc(prog) ==
    IF prog.total_attempts # 0
    THEN Ratio(prog.total_correct * 100, prog.total_attempts)
    ELSE Ratio(0, 1)

\* The ids of the items answered: q1 .. q<MaxAttempts>.
AttemptIds == {QId(n) : n \in 1 .. MaxAttempts}

\* update_progress as "Submit Jawaban" calls it, with the id of some item,
\* the outcome of the choice and the level of the session.
RecordAttempt ==
    /\ \E qid \in AttemptIds, correct \in BOOLEAN :
         progress' = update_progress(progress, qid, correct, difficulty)
    /\ UNCHANGED <<client, mode, difficulty, quiz, quiz_idx, answers,
                   current_answered, current_revealed, radio, gen>>

\* The ledger from ensure_state on: the calls of update_progress, the level
\* selectbox and "Reset Semua" are all that write progress or feed it.
NextLedger ==
    \/ RecordAttempt
    \/ SetDifficulty
    \/ reset_all

SpecLedger == Init /\ [][NextLedger]_vars

\* ------------------------------------------- gen_quiz: the reply's text

\* resp.text is a sequence of tokens: the opening fence of a markdown code
\* block with its language (three backticks and json, 7 characters), the bare
\* fence (three backticks), a whitespace character, the braces, a member of
\* an object with its separator (k), a number (n) and a word of prose (p).
FenceJson == "<fence>json"

Fence == "<fence>"

Tokens == {FenceJson, Fence, " ", "{", "}", "k", "n", "p"}

Texts == UNION {[1 .. n -> Tokens] : n \in 0 .. MaxText}

\* Lines 217-223: strip, then text[7:].strip() when the text starts with the
\* opening fence, then text[:-3].strip() when it ends with the fence.
StripFences(text) ==
    LET a == Strip(text)
        b == IF a # <<>> /\ Head(a) = FenceJson THEN Strip(Tail(a)) ELSE a
    IN IF b # <<>> /\ b[Len(b)] = Fence
       THEN Strip(SubSeq(b, 1, Len(b) - 1))
       ELSE b

NotSpace(c) == c \notin Whitespace

\* The tokens s, read at nesting depth `depth`, are the rest of one object:
\* members and nested objects inside braces, nothing after the last brace.
RECURSIVE ObjectRest(_, _)
ObjectRest(s, depth) ==
    IF s = <<>> THEN depth = 0
    ELSE CASE Head(s) = "{" -> ObjectRest(Tail(s), depth + 1)
           [] Head(s) = "}" -> /\ depth >= 1
                               /\ depth = 1 => Tail(s) = <<>>
                               /\ ObjectRest(Tail(s), depth - 1)
           [] Head(s) = "k" -> depth >= 1 /\ ObjectRest(Tail(s), depth)
           [] OTHER -> FALSE

\* json.loads: whitespace between tokens is skipped; the text must be one
\* value, an object or a number, and the value returned is that value (here
\* the tokens that make it); any other text raises JSONDecodeError.
JsonLoads(text) ==
    LET s == SelectSeq(text, NotSpace)
    IN IF \/ s = <<"n">>
          \/ s # <<>> /\ Head(s) = "{" /\ ObjectRest(s, 0)
       THEN Ok(s)
       ELSE Raise("JSONDecodeError")

\* re.search with a lazy pattern: from the first "{" that has a "}" after it
\* to the first such "}".
ReSearch_lazy(text) ==
    LET starts == {i \in 1 .. Len(text) :
                      text[i] = "{" /\ \E j \in i + 1 .. Len(text) : text[j] = "}"}
    IN IF starts = {} THEN [found |-> FALSE, group |-> <<>>]
       ELSE LET i == CHOOSE x \in starts : \A y \in starts : x <= y
                ends == {j \in i + 1 .. Len(text) : text[j] = "}"}
                j == CHOOSE x \in ends : \A y \in ends : x <= y
            IN [found |-> TRUE, group |-> SubSeq(text, i, j)]

\* re.search of "{", any characters (newlines too), "}": the match starts at
\* the leftmost "{" that has a "}" after it; the middle is greedy, so the
\* match ends at the last "}".
ReSearch(text) ==
    LET starts == {i \in 1 .. Len(text) :
                      text[i] = "{" /\ \E j \in i + 1 .. Len(text) : text[j] = "}"}
    IN IF starts = {} THEN [found |-> FALSE, group |-> <<>>]
       ELSE LET i == CHOOSE x \in starts : \A y \in starts : x <= y
                ends == {j \in i + 1 .. Len(text) : text[j] = "}"}
                j == CHOOSE x \in ends : \A y \in ends : y <= x
            IN [found |-> TRUE, group |-> SubSeq(text, i, j)]

\* Lines 217-238: quiz_data, or the ValueError "Gagal parse JSON kuis".
ParseReply(resp_text) ==
    LET text == StripFences(resp_text)
        first == JsonLoads(text)
    IN IF first.ok THEN first
       ELSE LET match == ReSearch(text)
            IN IF ~match.found THEN Raise("ValueError")
               ELSE LET second == JsonLoads(match.group)
                    IN IF second.ok THEN second ELSE Raise("ValueError")

\* generate_content has returned resp.text.
InitParse ==
    /\ client = FALSE
    /\ mode = "Belajar"
    /\ difficulty = "easy"
    /\ quiz = JNull
    /\ quiz_idx = 0
    /\ answers = EmptyDict
    /\ current_answered = FALSE
    /\ current_revealed = FALSE
    /\ progress = EmptyProgress
    /\ radio = EmptyDict
    /\ gen \in {[pc |-> "call", text |-> t] : t \in Texts}

ParseCall ==
    /\ gen.pc = "call"
    /\ gen' = [pc |-> "done", text |-> gen.text, result |-> ParseReply(gen.text)]
    /\ UNCHANGED <<client, mode, difficulty, quiz, quiz_idx, answers,
                   current_answered, current_revealed, progress, radio>>

NextParse == ParseCall

SpecParse == InitParse /\ [][NextParse]_vars

\* --------------------------------- gen_quiz on its own, from json.loads on

\* An item in the form gen_quiz returns, with the id given.
CanonicalItem(id) ==
    [id |-> id, question |-> "Q", options |-> JList(FourOptions),
     answer_index |-> JInt(1), explanation |-> "why", tags |-> <<"t">>]

\* The items of the parsed outputs: two in the returned form, one without an
\* id, one with the alias keys and a question_number, one with 3 options,
\* one with answer_index 5 and one without a question.
ParsedItems ==
    { CanonicalItem("q1"),
      CanonicalItem("q2"),
      [question |-> "Q", options |-> JList(FourOptions), answer_index |-> JInt(0)],
      [question_text |-> "Q",
       options |-> JDict([A |-> "w", B |-> "x", C |-> "y", D |-> "z"]),
       correct_answer |-> <<" ", "b">>,
       question_number |-> 1],
      [question |-> "Q", options |-> JList(<<"w", "x", "y">>),
       answer_index |-> JInt(0)],
      [question |-> "Q", options |-> JList(FourOptions), answer_index |-> JInt(5)],
      [options |-> JList(FourOptions), answer_index |-> JInt(0)] }

ParsedItemLists == UNION {[1 .. n -> ParsedItems] : n \in 0 .. MaxItems}

\* What json.loads may return: an object with items or questions (a list of
\* items, or a value of another type, or none), and the values that are no
\* object.
ParsedOutputs ==
    {JDict([topic |-> "T", level |-> "hard", items |-> JList(s)]) :
        s \in ParsedItemLists}
    \cup {JDict([quiz_name |-> "T", questions |-> JList(s)]) : s \in ParsedItemLists}
    \cup {JDict([items |-> JList(s)]) : s \in ParsedItemLists}
    \cup {JDict([topic |-> "T", items |-> v]) :
            v \in {JNull, JInt(0), JBool(TRUE), JStr(<<"w", "x">>),
                   JDict([A |-> CanonicalItem("q1")])}}
    \cup {JDict([topic |-> "T", questions |-> JNull]),
          JDict([topic |-> "T", items |-> JList(<<>>), questions |-> JNull]),
          JDict([topic |-> "T", level |-> "hard"]),
          JDict(EmptyDict)}
    \cup {JList(<<>>), JList(<<CanonicalItem("q1")>>), JStr(<<"w">>), JInt(0),
          JBool(TRUE), JNull}

\* gen_quiz from json.loads on. A value that is no dict raises TypeError in the
\* lines of the aliases: `in` needs an iterable, and the assignment of
\* quiz_data["topic"] a dict (the lists and strings of ParsedOutputs hold none
\* of the key names).
gen_quiz_parsed(quiz_data, level, topic_text) ==
    IF Kind(quiz_data) # "dict" THEN Raise("TypeError")
    ELSE gen_quiz(Val(quiz_data), level, topic_text)

\* gen_quiz has parsed the model's output and is about to normalise it.
InitNorm ==
    /\ client = FALSE
    /\ mode = "Belajar"
    /\ difficulty \in Difficulties
    /\ quiz = JNull
    /\ quiz_idx = 0
    /\ answers = EmptyDict
    /\ current_answered = FALSE
    /\ current_revealed = FALSE
    /\ progress = EmptyProgress
    /\ radio = EmptyDict
    /\ gen \in {[pc |-> "call", quiz_data |-> d, topic_text |-> t] :
                  d \in ParsedOutputs, t \in TopicTexts}

\* Lines 240-293: the quiz returned, or the exception raised.
NormCall ==
    /\ gen.pc = "call"
    /\ gen' = [pc |-> "done", quiz_data |-> gen.quiz_data,
               topic_text |-> gen.topic_text,
               result |-> gen_quiz_parsed(gen.quiz_data, difficulty, gen.topic_text)]
    /\ UNCHANGED <<client, mode, difficulty, quiz, quiz_idx, answers,
                   current_answered, current_revealed, progress, radio>>

NextNorm == NormCall

SpecNorm == InitNorm /\ [][NextNorm]_vars

\* ------------------------------------ the loop body of gen_quiz on its own

\* The items the loop body is applied to: every combination of the keys it
\* reads, absent or present, with values that pass and values that fail each
\* test. A dict is built from its parts with @@; the parts have no key in
\* common.
QuestionParts ==
    { EmptyDict,
      "question" :> "Q",
      "question" :> "",
      "question_text" :> "T",
      ("question" :> "Q") @@ ("question_text" :> "T") }

OptionValues ==
    { JList(FourOptions),
      JList(<<"w", "x", "y">>),
      JDict([A |-> "w", B |-> "x", C |-> "y", D |-> "z"]),
      JDict([A |-> "w", C |-> "y"]),
      JDict([a |-> "w", b |-> "x", c |-> "y", d |-> "z", e |-> "v"]),
      JStr(<<"w", "x", "y", "z">>),
      JNull }

OptionParts == {EmptyDict} \cup {"options" :> o : o \in OptionValues}

CorrectAnswers ==
    { <<"A">>, <<" ", "b">>, <<"d", "\n">>, <<>>, <<" ">>, <<"A", "B">>,
      <<"A", "C">>, <<"E">> }

AnswerIndexes == {JInt(0), JInt(3), JInt(5), JInt(-1), JBool(TRUE), JStr(<<"1">>)}

AnswerParts ==
    {EmptyDict}
    \cup {"correct_answer" :> c : c \in CorrectAnswers}
    \cup {"answer_index" :> n : n \in AnswerIndexes}
    \cup {("correct_answer" :> c) @@ ("answer_index" :> n) :
             c \in CorrectAnswers, n \in AnswerIndexes}

IdParts ==
    { EmptyDict,
      "question_number" :> 1,
      "id" :> "x",
      ("question_number" :> 1) @@ ("id" :> "x") }

DefaultParts == {EmptyDict, ("explanation" :> "why") @@ ("tags" :> <<"t">>)}

ItemInputs ==
    {q @@ o @@ a @@ n @@ d :
        q \in QuestionParts, o \in OptionParts, a \in AnswerParts,
        n \in IdParts, d \in DefaultParts}

\* The loop body is about to run on gen.item in round gen.i.
InitItem ==
    /\ client = FALSE
    /\ mode = "Belajar"
    /\ difficulty = "easy"
    /\ quiz = JNull
    /\ quiz_idx = 0
    /\ answers = EmptyDict
    /\ current_answered = FALSE
    /\ current_revealed = FALSE
    /\ progress = EmptyProgress
    /\ radio = EmptyDict
    /\ gen \in {[pc |-> "call", item |-> it, i |-> i] :
                  it \in ItemInputs, i \in 0 .. MaxItems - 1}

\* One round of the loop: the item as the round leaves it, or the exception.
ItemCall ==
    /\ gen.pc = "call"
    /\ gen' = [pc |-> "done", item |-> gen.item, i |-> gen.i,
               result |-> NormItem(gen.item, gen.i)]
    /\ UNCHANGED <<client, mode, difficulty, quiz, quiz_idx, answers,
                   current_answered, current_revealed, progress, radio>>

NextItem == ItemCall

SpecItem == InitItem /\ [][NextItem]_vars

\* ------------------------------------------- "Buat Kuis" on its own

\* Texts of the model that gen_quiz cannot parse: prose, an object followed
\* by prose and a brace, an opening fence with an object cut short.
UnparsedTexts ==
    {t \in {<<"p", " ", "p">>, <<"{", "k", "}", "p", "}">>, <<FenceJson, "{", "k">>} :
        ~ParseReply(t).ok}

\* What generate_content may return: a text that does not parse, or a text
\* that json.loads turns into one of ModelOutputs.
Replies ==
    {[text |-> t] : t \in UnparsedTexts} \cup {[parsed |-> d] : d \in ModelOutputs}

\* gen_quiz from resp.text on; a text of Replies is one ParseReply rejects.
gen_quiz_reply(reply, level, topic_text) ==
    IF Kind(reply) = "text" THEN ParseReply(Val(reply))
    ELSE gen_quiz(Val(reply), level, topic_text)

\* The ledgers a session can have: the ids of history differ and the totals
\* count its entries.
SessionLedgers ==
    {l \in Ledgers :
        /\ \A j, k \in 1 .. Len(l.history) :
              j # k => l.history[j].id # l.history[k].id
        /\ l.total_attempts = Len(l.history)
        /\ l.total_correct
             = Cardinality({k \in 1 .. Len(l.history) : l.history[k].correct})}

\* The quiz area without a quiz, as ensure_state and every restart leave it,
\* with the ledger of the quizzes before; "Buat Kuis" is clicked and
\* generate_content has returned gen.reply.
InitGen ==
    /\ client = TRUE
    /\ mode = "Kuis"
    /\ difficulty \in Difficulties
    /\ quiz = JNull
    /\ quiz_idx = 0
    /\ answers = EmptyDict
    /\ current_answered = FALSE
    /\ current_revealed = FALSE
    /\ progress \in SessionLedgers
    /\ radio = EmptyDict
    /\ gen \in {[pc |-> "call", reply |-> r, topic_text |-> t] :
                  r \in Replies, t \in TopicTexts}

\* The rest of the handler of "Buat Kuis".
GenQuizCall ==
    /\ gen.pc = "call"
    /\ QuizArea
    /\ ~HasQuiz
    /\ StoreQuiz(gen_quiz_reply(gen.reply, difficulty, gen.topic_text))
    /\ gen' = [gen EXCEPT !.pc = "done"]

NextGen == GenQuizCall

SpecGen == InitGen /\ [][NextGen]_vars

\* ------------------------------------------------------------- phases

\* The phase of the session, as render_quiz_area branches on it: no quiz;
\* quiz_idx past the last item (or no items at all); the item shown is not
\* answered; answered and not revealed; revealed.
Phase ==
    IF ~HasQuiz THEN "NoQuiz"
    ELSE IF quiz_idx >= Len(Items) THEN "Completed"
    ELSE IF ~current_answered THEN "Unanswered"
    ELSE IF ~current_revealed THEN "Answered"
    ELSE "Revealed"

\* The state every restart leaves: the "quiz" defaults of ensure_state.
PreQuiz ==
    /\ ~HasQuiz
    /\ quiz_idx = 0
    /\ answers = EmptyDict
    /\ ~current_answered
    /\ ~current_revealed

\* A Submit click with a choice selected: the submit is accepted.
SubmitAccepted == Submit /\ Has(radio, CurrentItem["id"])

\* h["correct"] of the entry of qid in history.
RecordedCorrect(prog, qid) ==
    LET k == CHOOSE j \in 1 .. Len(prog.history) : prog.history[j].id = qid
    IN prog.history[k].correct

\* ------------------------------------------------------------- claims

\* C1: after every accepted submit, history holds an entry for the item's id
\* whose correct flag is (choice == answer_index). The code drops the record
\* when an entry with that id is already there (the ids q1, q2, ... repeat in
\* every quiz), so the entry found may be that of an earlier submit.
C1_SubmitRecordsOutcome ==
    [][SubmitAccepted =>
         \E k \in 1 .. Len(progress'.history) :
            /\ progress'.history[k].id = CurrentItem["id"]
            /\ progress'.history[k].correct
                 = IsCorrect(radio[CurrentItem["id"]], CurrentItem)]_vars

\* C2: no two entries of history have the same item id.
C2_OneEntryPerItem ==
    \A j, k \in 1 .. Len(progress.history) :
        progress.history[j].id = progress.history[k].id => j = k

\* A submit was accepted for an item whose id was in history already, with
\* the other outcome: the second record was dropped.
C2_Witness ==
    /\ ItemShown
    /\ current_answered
    /\ InHistory(progress, CurrentItem["id"])
    /\ RecordedCorrect(progress, CurrentItem["id"])
         # IsCorrect(answers[CurrentItem["id"]], CurrentItem)

\* C3: update_progress is idempotent per item id. For every ledger and every
\* (item id, correct, level): when history has an entry with that id the
\* ledger comes back unchanged, whatever the new correct value; otherwise
\* exactly one entry is appended at the end of history, the earlier entries
\* stay, and the totals count it.
C3_RecordIdempotent ==
    \A qid \in LedgerIds, correct \in BOOLEAN, level \in Difficulties :
        LET after == update_progress(progress, qid, correct, level)
        IN IF InHistory(progress, qid)
           THEN after = progress
           ELSE /\ after.history
                     = Append(progress.history,
                              [id |-> qid, correct |-> correct, level |-> level])
                /\ after.total_attempts = progress.total_attempts + 1
                /\ after.total_correct
                     = progress.total_correct + (IF correct THEN 1 ELSE 0)

\* The spec's case: q1 is recorded as correct, one attempt, and a second
\* record of q1 (as wrong) is applied to that ledger.
C3_Witness ==
    /\ progress.total_attempts = 1
    /\ progress.total_correct = 1
    /\ Len(progress.history) = 1
    /\ progress.history[1].id = "q1"
    /\ progress.history[1].correct

\* C4: total_attempts is the number of entries of history and total_correct
\* the number of its entries with correct = True.
C4_TotalsMatchHistory ==
    /\ progress.total_attempts = Len(progress.history)
    /\ progress.total_correct
         = Cardinality({k \in 1 .. Len(progress.history) : progress.history[k].correct})

\* A ledger with a correct and a wrong entry.
C4_Witness ==
    \E j, k \in 1 .. Len(progress.history) :
        progress.history[j].correct /\ ~progress.history[k].correct

\* The quiz and its cursor, the stored answers, the two flags, the ledger.
session == <<quiz, quiz_idx, answers, current_answered, current_revealed, progress>>

\* C5: each advance moves quiz_idx on by one, and the quiz is Completed
\* exactly when quiz_idx has come to the number of items, so n rounds of
\* submit, reveal, advance on a fresh quiz of n >= 1 items end in Completed.
\* From Completed the session and the ledger change only by a restart ("Ulangi
\* Kuis", or "Reset Semua", which also empties the ledger), which leaves the
\* pre-quiz state: no submit, reveal or advance is accepted.
C5_RoundsEndCompleted ==
    [][/\ Advance =>
            /\ quiz_idx' = quiz_idx + 1
            /\ (Phase' = "Completed") <=> (quiz_idx' = Len(Items))
       /\ Phase = "Completed" =>
            \/ UNCHANGED session
            \/ PreQuiz' /\ progress' \in {progress, EmptyProgress}]_vars

\* A quiz of at least 2 items, each of them submitted and passed: Completed.
C5_Witness ==
    /\ Phase = "Completed"
    /\ Len(Items) >= 2
    /\ quiz_idx = Len(Items)
    /\ \A k \in 1 .. Len(Items) : Has(answers, Items[k]["id"])

\* C6 as stated: quiz_idx grows only in phase Revealed. The "Lanjut" button is
\* drawn whenever the item is answered, revealed or not.
C6_AdvanceOnlyRevealed ==
    [][quiz_idx' > quiz_idx => Phase = "Revealed"]_vars

\* C6, amended: quiz_idx grows only in phase Answered or Revealed, never in
\* Unanswered, and then an answer to the item passed is stored: every advance
\* past an item follows an accepted submit of that item.
C6_AdvanceOnlyAnswered ==
    [][quiz_idx' > quiz_idx =>
         /\ Phase \in {"Answered", "Revealed"}
         /\ Has(answers, CurrentItem["id"])]_vars

\* An advance has happened and the next item is shown.
C6_Witness ==
    /\ Phase = "Unanswered"
    /\ quiz_idx >= 1

\* C7: a restart (either "Ulangi Kuis", or "Reset Semua", which is on the
\* sidebar in every phase) leaves the pre-quiz state: no quiz, quiz_idx 0, no
\* stored answers, not answered, not revealed. While there is no quiz the
\* session stays so, and the ledger gets no entry, until a quiz is generated.
C7_RestartGivesPreQuiz ==
    /\ [](HasQuiz => ENABLED reset_all)
    /\ [][(Restart \/ RestartInvalid \/ reset_all) => PreQuiz']_vars
    /\ [](~HasQuiz => PreQuiz)
    /\ [][~HasQuiz =>
            /\ progress' \in {progress, EmptyProgress}
            /\ quiz_idx' = 0
            /\ answers' = EmptyDict
            /\ ~current_answered'
            /\ ~current_revealed']_vars

\* "Ulangi Kuis" was clicked after a quiz with a recorded answer.
C7_Witness ==
    /\ PreQuiz
    /\ progress.history # <<>>

\* C8: a Submit click with no choice selected changes nothing: the phase
\* stays Unanswered, quiz_idx, the stored answers and the ledger stay.
C8_SubmitWithoutChoice ==
    [][(Submit /\ ~Has(radio, CurrentItem["id"])) =>
         /\ Phase' = "Unanswered"
         /\ UNCHANGED <<quiz_idx, answers, progress, quiz, current_answered,
                        current_revealed>>]_vars

\* An item is shown, not answered, and its radio has no value.
C8_Witness ==
    /\ Phase = "Unanswered"
    /\ QuizArea
    /\ ~Has(radio, CurrentItem["id"])

\* C9: an advance adds exactly 1 to quiz_idx, removes the selected choice of
\* the item passed, clears both flags and leaves the ledger; the phase after
\* it is Unanswered when quiz_idx < the number of items and Completed
\* otherwise.
C9_AdvanceEffect ==
    [][Advance =>
         /\ quiz_idx' = quiz_idx + 1
         /\ ~Has(radio', CurrentItem["id"])
         /\ ~current_answered'
         /\ ~current_revealed'
         /\ UNCHANGED <<progress, quiz, answers>>
         /\ Phase' = IF quiz_idx' < Len(Items) THEN "Unanswered"
                     ELSE "Completed"]_vars

\* The last item was passed with its explanation revealed or not: the ledger
\* holds its entry and the quiz is Completed.
C9_Witness ==
    /\ Phase = "Completed"
    /\ Len(Items) >= 1
    /\ progress.history # <<>>
    /\ radio = EmptyDict

\* C10: current_revealed is set only in phase Answered; the step gives phase
\* Revealed and leaves quiz_idx, the stored answers, the quiz and the ledger.
C10_RevealEffect ==
    [][(Reveal \/ (~current_revealed /\ current_revealed')) =>
         /\ Phase = "Answered"
         /\ Phase' = "Revealed"
         /\ UNCHANGED <<quiz_idx, answers, quiz, progress>>]_vars

\* An item's answer and explanation are revealed.
C10_Witness == Phase = "Revealed"

\* C11: every step that stores a new quiz starts its session afresh: the
\* index is 0, the item is neither answered nor revealed and no answer is
\* stored, whatever the quizzes before it left.
C11_NewQuizFreshSession ==
    [][(~HasQuiz /\ HasQuiz') =>
         /\ quiz_idx' = 0
         /\ ~current_answered'
         /\ ~current_revealed'
         /\ answers' = EmptyDict]_vars

\* A quiz just stored while the ledger holds the answers of an earlier quiz.
C11_Witness ==
    /\ HasQuiz
    /\ Items # <<>>
    /\ quiz_idx = 0
    /\ answers = EmptyDict
    /\ ~current_answered
    /\ progress.history # <<>>

\* The call of gen_quiz that is stepped through has returned a quiz.
Returned == gen.pc = "done" /\ gen.result.ok

\* The call has raised the exception e.
Raised(e) == gen.pc = "done" /\ ~gen.result.ok /\ gen.result.err = e

\* The items of the quiz returned.
ReturnedItems == Val(gen.result.v["items"])

\* C12: the ids of the items of a quiz that gen_quiz returns are pairwise
\* distinct. The code takes the id from question_number or from the item and
\* numbers the rest by position, and tests none of them against the others.
C12_IdsDistinct ==
    Returned =>
        \A j, k \in 1 .. Len(ReturnedItems) :
            j # k => ReturnedItems[j]["id"] # ReturnedItems[k]["id"]

\* C13: an item that the loop body lets through has a non-empty question, a
\* list of exactly 4 options and an int answer_index in 0 .. 3, and an item
\* with a list of other than 4 options, or with an int answer_index outside
\* 0 .. 3 and no correct_answer, raises ValueError. The code tests that
\* "question" is a key and never its value, takes len() of whatever options
\* is, and takes a bool for an int.
C13_ItemInvariant ==
    /\ Returned =>
          /\ gen.result.v["question"] # ""
          /\ Kind(gen.result.v["options"]) = "list"
          /\ Len(Val(gen.result.v["options"])) = 4
          /\ Kind(gen.result.v["answer_index"]) = "int"
          /\ Val(gen.result.v["answer_index"]) \in 0 .. 3
    /\ (/\ gen.pc = "done"
        /\ Has(gen.item, "options")
        /\ Kind(gen.item["options"]) = "list"
        /\ Len(Val(gen.item["options"])) # 4) => ~gen.result.ok
    /\ (/\ gen.pc = "done"
        /\ ~Has(gen.item, "correct_answer")
        /\ Has(gen.item, "answer_index")
        /\ Kind(gen.item["answer_index"]) = "int"
        /\ Val(gen.item["answer_index"]) \notin 0 .. 3) => ~gen.result.ok

\* The item as the loop body has it when it comes to correct_answer, or the
\* exception raised before.
BeforeCorrectAnswer(item) ==
    LET a == NormQuestion(item)
    IN IF a.ok THEN NormOptions(a.v) ELSE a

\* The round of the loop that has run came to an item's correct_answer.
AtCorrectAnswer ==
    /\ gen.pc = "done"
    /\ Has(gen.item, "correct_answer")
    /\ BeforeCorrectAnswer(gen.item).ok

\* "A", "B", "C", "D"
Letters == {<<ABCD[k]>> : k \in 1 .. 4}

\* C14: a correct_answer that is one of the letters A, B, C, D once stripped
\* and upper-cased becomes the answer_index of its position and is removed;
\* every other string raises ValueError. The code's test is `in "ABCD"`, which
\* the empty string and AB pass; ord() then raises TypeError.
C14_CorrectAnswer ==
    AtCorrectAnswer =>
        LET corr_ans == Upper(Strip(gen.item["correct_answer"]))
        IN IF corr_ans \in Letters
           THEN /\ gen.result.ok
                /\ gen.result.v["answer_index"] = JInt(LetterPosition(corr_ans[1]))
                /\ ~Has(gen.result.v, "correct_answer")
           ELSE Raised("ValueError")

\* The rounds of the loop that raise, each taken on its own.
Violating(items) == {k \in 0 .. Len(items) - 1 : ~NormItem(items[k + 1], k).ok}

\* The call stepped through has come to the loop over a list of items.
LoopRan ==
    /\ gen.pc = "done"
    /\ Kind(gen.quiz_data) = "dict"
    /\ LET q == NormTopLevel(Val(gen.quiz_data), difficulty, gen.topic_text)
       IN Has(q, "items") /\ Kind(q["items"]) = "list"

\* The items the loop ran over.
LoopItems ==
    Val(NormTopLevel(Val(gen.quiz_data), difficulty, gen.topic_text)["items"])

HasBraceSpan(text) ==
    \E i, j \in 1 .. Len(text) : i < j /\ text[i] = "{" /\ text[j] = "}"

\* The text from its first "{" to its last "}".
BraceSpan(text) ==
    LET i == CHOOSE x \in 1 .. Len(text) :
                 text[x] = "{" /\ \A y \in 1 .. x - 1 : text[y] # "{"
        j == CHOOSE x \in 1 .. Len(text) :
                 text[x] = "}" /\ \A y \in x + 1 .. Len(text) : text[y] # "}"
    IN SubSeq(text, i, j)

\* C16: the fence-stripped text is used when it parses; when it does not, the
\* text from the first "{" to the last "}" is parsed, once, and used when it
\* parses; in every other case gen_quiz raises the ValueError of the parse
\* failure.
C16_SingleRetry ==
    gen.pc = "done" =>
        LET text == StripFences(gen.text)
        IN IF JsonLoads(text).ok
           THEN gen.result.ok /\ gen.result.v = JsonLoads(text).v
           ELSE IF HasBraceSpan(text) /\ JsonLoads(BraceSpan(text)).ok
           THEN gen.result.ok /\ gen.result.v = JsonLoads(BraceSpan(text)).v
           ELSE Raised("ValueError")

\* Prose around an object with a nested object: the first parse fails and
\* the span between the outer braces is what gen_quiz goes on with.
C16_Witness ==
    /\ gen.pc = "done"
    /\ gen.text = <<"p", "{", "{", "}", "}">>
    /\ gen.result.ok
    /\ gen.result.v = <<"{", "{", "}", "}">>

\* The parsed object has items once "questions" is renamed: "questions" wins
\* over "items".
HasItemsKey(d) == Has(d, "questions") \/ Has(d, "items")

ItemsValue(d) == IF Has(d, "questions") THEN d["questions"] ELSE d["items"]

AliasForm(item) ==
    /\ Has(item, "question_text")
    /\ ~Has(item, "question")
    /\ Has(item, "correct_answer")
    /\ ~Has(item, "answer_index")
    /\ Upper(Strip(item["correct_answer"])) \in Letters

\* The same item with question for question_text and the letter's position
\* as answer_index for correct_answer.
SchemaForm(item) ==
    LET rest == Pop(Pop(item, "question_text"), "correct_answer")
        letter == Upper(Strip(item["correct_answer"]))[1]
    IN Put(Put(rest, "question", item["question_text"]),
           "answer_index", JInt(LetterPosition(letter)))

\* C18: an item in alias form and the same item in the schema's form come
\* out of the loop body alike, as the same item without the alias keys or
\* with the same exception.
C18_AliasEquivalence ==
    (gen.pc = "done" /\ AliasForm(gen.item)) =>
        LET r == NormItem(SchemaForm(gen.item), gen.i)
        IN /\ gen.result.ok = r.ok
           /\ r.ok => /\ gen.result.v = r.v
                       /\ ~Has(gen.result.v, "question_text")
                       /\ ~Has(gen.result.v, "correct_answer")
           /\ ~r.ok => gen.result.err = r.err

\* An item with question_text T and correct_answer D that came out with
\* question T and answer_index 3.
C18_Witness ==
    /\ Returned
    /\ AliasForm(gen.item)
    /\ gen.item["correct_answer"] = <<"d", "\n">>
    /\ gen.result.v["question"] = "T"
    /\ gen.result.v["answer_index"] = JInt(3)

\* The round of the loop that has run came to options that are a dict.
AtOptionsDict ==
    /\ gen.pc = "done"
    /\ NormQuestion(gen.item).ok
    /\ Has(gen.item, "options")
    /\ Kind(gen.item["options"]) = "dict"

\* d.get(key, "")
Get(d, key) == IF key \in DOMAIN d THEN d[key] ELSE ""

\* C19: options given as a dict become the list of its values at A, B, C, D,
\* in that order, with "" for a missing key; the test for 4 options is made on
\* that list, so the round goes on as it does for the item with the list.
C19_OptionsFromMapping ==
    AtOptionsDict =>
        LET d == Val(gen.item["options"])
            converted == JList(<<Get(d, "A"), Get(d, "B"), Get(d, "C"), Get(d, "D")>>)
            r == NormItem(Put(gen.item, "options", converted), gen.i)
        IN /\ gen.result.ok = r.ok
           /\ gen.result.ok => gen.result.v["options"] = converted
           /\ ~gen.result.ok => gen.result.err = r.err

\* A dict with the keys A and C alone came out as [w, "", y, ""].
C19_Witness ==
    /\ AtOptionsDict
    /\ Returned
    /\ DOMAIN Val(gen.item["options"]) = {"A", "C"}
    /\ gen.result.v["options"] = JList(<<"w", "", "y", "">>)

\* An item with the keys of the returned form and no other, 4 options in a
\* list and an int answer_index in 0 .. 3.
IsCanonicalItem(item) ==
    /\ DOMAIN item = {"id", "question", "options", "answer_index", "explanation",
                      "tags"}
    /\ Kind(item["options"]) = "list"
    /\ Len(Val(item["options"])) = 4
    /\ Kind(item["answer_index"]) = "int"
    /\ Val(item["answer_index"]) \in 0 .. 3

\* A parsed value in the form gen_quiz returns: topic, level and a list of
\* canonical items.
IsCanonical(quiz_data) ==
    /\ Kind(quiz_data) = "dict"
    /\ DOMAIN Val(quiz_data) = {"topic", "level", "items"}
    /\ Kind(Val(quiz_data)["items"]) = "list"
    /\ \A k \in 1 .. Len(Val(Val(quiz_data)["items"])) :
          IsCanonicalItem(Val(Val(quiz_data)["items"])[k])

\* C20: gen_quiz returns a quiz in canonical form as it is, and a quiz that
\* gen_quiz has returned comes back unchanged from another pass, whatever
\* the level and the topic text of that pass.
C20_RoundTrip ==
    /\ (gen.pc = "done" /\ IsCanonical(gen.quiz_data)) =>
          Returned /\ gen.result.v = Val(gen.quiz_data)
    /\ Returned =>
          \A level \in Difficulties, topic_text \in TopicTexts :
             LET again == gen_quiz(gen.result.v, level, topic_text)
             IN again.ok /\ again.v = gen.result.v

\* A canonical quiz of level hard with the items q2, q1 in that order,
\* normalised with the level easy, came back with its level and its ids.
C20_Witness ==
    /\ Returned
    /\ IsCanonical(gen.quiz_data)
    /\ difficulty = "easy"
    /\ gen.result.v["level"] = "hard"
    /\ Len(ReturnedItems) = 2
    /\ ReturnedItems[1]["id"] = "q2"
    /\ ReturnedItems[2]["id"] = "q1"

\* C21: acc is 0 when there is no attempt, else 100 * correct / attempts,
\* and never more than 100.
C21_Accuracy ==
    /\ acc(progress).den > 0
    /\ progress.total_attempts = 0 => acc(progress).num = 0
    /\ progress.total_attempts # 0 =>
          acc(progress).num * progress.total_attempts
              = 100 * progress.total_correct * acc(progress).den
    /\ acc(progress).num <= 100 * acc(progress).den

\* 3 correct of 4 attempts: acc is 75.
C21_Witness ==
    /\ progress.total_attempts = 4
    /\ progress.total_correct = 3
    /\ acc(progress).num = 75 * acc(progress).den

\* The flags, the index and the stored answers fit the quiz.
Consistent ==
    /\ current_revealed => current_answered
    /\ current_answered =>
          /\ HasQuiz
          /\ quiz_idx < Len(Items)
          /\ Has(answers, CurrentItem["id"])
    /\ HasQuiz => quiz_idx \in 0 .. Len(Items)

\* C22: in every state the session is consistent (revealed only if answered;
\* answered only with a quiz, an item under quiz_idx and a stored answer for
\* its id; quiz_idx between 0 and the number of items), and while the quiz
\* stays the quiz_idx does not go down.
C22_SessionConsistent ==
    /\ []Consistent
    /\ [][(HasQuiz /\ HasQuiz') => quiz_idx' >= quiz_idx]_vars

\* The second item of a quiz, answered and revealed, while the learner has
\* switched to another mode.
C22_Witness ==
    /\ HasQuiz
    /\ quiz_idx = 1
    /\ current_answered
    /\ current_revealed
    /\ mode = "Review"

\* In Completed every item of the quiz has its id in answers and in history.
CompletedAllRecorded ==
    Phase = "Completed" =>
        \A k \in 1 .. Len(Items) :
           /\ Has(answers, Items[k]["id"])
           /\ InHistory(progress, Items[k]["id"])

\* C23: quiz_idx moves past an item only when that item is answered, with its
\* answer stored and its id in history; so in Completed every item of the
\* quiz has its id in answers and in history.
C23_NoItemSkipped ==
    /\ [][(HasQuiz /\ quiz_idx' > quiz_idx) =>
            /\ quiz_idx' = quiz_idx + 1
            /\ current_answered
            /\ Has(answers, CurrentItem["id"])
            /\ InHistory(progress, CurrentItem["id"])]_vars
    /\ []CompletedAllRecorded

\* A quiz of two items with the ids q1 and q2, completed, with a wrong
\* answer among the two.
C23_Witness ==
    /\ Phase = "Completed"
    /\ Len(Items) = 2
    /\ Items[1]["id"] # Items[2]["id"]
    /\ Len(progress.history) = 2
    /\ progress.total_correct = 1

\* The reply of the call stepped through makes gen_quiz raise.
ReplyFails == ~gen_quiz_reply(gen.reply, difficulty, gen.topic_text).ok

\* A quiz that is stored is the whole quiz gen_quiz returned for the reply.
StoredIsReturned ==
    HasQuiz =>
        /\ gen.pc = "done"
        /\ ~ReplyFails
        /\ quiz = JDict(gen_quiz_reply(gen.reply, difficulty, gen.topic_text).v)

\* C24: when gen_quiz raises, on a text it cannot parse or on a parsed value
\* that breaks the schema, the handler leaves quiz None and quiz_idx, answers,
\* the two flags and the ledger as they were; a quiz is stored only as
\* gen_quiz returned it.
C24_FailedGenerationChangesNothing ==
    /\ [][(gen.pc = "call" /\ gen'.pc = "done" /\ ReplyFails) =>
            /\ ~HasQuiz'
            /\ UNCHANGED <<quiz, quiz_idx, answers, current_answered,
                           current_revealed, progress>>]_vars
    /\ []StoredIsReturned

\* The handler has run on a reply whose second item has 3 options (the first
\* item is valid), with a ledger of two entries: no quiz is stored.
C24_Witness ==
    /\ gen.pc = "done"
    /\ ReplyFails
    /\ Kind(gen.reply) = "parsed"
    /\ Has(Val(gen.reply), "items")
    /\ Kind(Val(gen.reply)["items"]) = "list"
    /\ Violating(Val(Val(gen.reply)["items"])) = {1}
    /\ ~HasQuiz
    /\ Len(progress.history) = 2

====
